---- MODULE Spec2Model ----
(***************************************************************************)
(* The tray front-end of src/src/tray.rs: the menu-to-configuration        *)
(* binding (option groups rendered from the shared Config, the selection   *)
(* callback that writes and saves it, the action entries that send an      *)
(* ActionEvent to the main loop).                                          *)
(*                                                                         *)
(* Two threads are modelled.  "tray" is the host tray thread: every        *)
(* callback takes `&mut T` (tray.rs:55,60,65) and menu takes `&self`       *)
(* (tray.rs:210), so the host runs one of them at a time.  "main" is the   *)
(* main loop that owns the receiving end of the channel and shares the     *)
(* Arc<RwLock<Config>>; its code is not in tray.rs and is modelled from    *)
(* the specification.                                                      *)
(***************************************************************************)
EXTENDS Integers, Sequences, FiniteSets, TLC

\* ------------------------------------------------------------------ bounds
\* Numbers a user may type into the custom-number prompt: 0, 15, .., 15*MaxCustom.
MaxCustom == 3
\* Menu openings and entry activations the host performs in one run.
MaxActivations == 3
\* Capacity of the bounded mpsc channel (created by the main program).
ChanCap == 1

CustomNumbers == {15 * k : k \in 0..MaxCustom}
Paths == {"/a", "/b"}

\* -------------------------------------------------------------- data model
Quality == {"Medium", "High", "VeryHigh", "Ultra"}
Container == {"MKV", "MP4", "WEBM", "FLV"}
ActionEvent == {"SaveReplay", "ChangeReplayPath", "Quit"}

TrayMultipleOption(label, value) == [label |-> label, value |-> value]

FramerateValues ==
    << TrayMultipleOption("30", 30), TrayMultipleOption("60", 60) >>
DurationValues ==
    << TrayMultipleOption("30s", 30), TrayMultipleOption("1min", 60),
       TrayMultipleOption("2min", 120), TrayMultipleOption("3min", 180),
       TrayMultipleOption("5min", 300) >>
QualityValues ==
    << TrayMultipleOption("Medium", "Medium"), TrayMultipleOption("High", "High"),
       TrayMultipleOption("Very high", "VeryHigh"), TrayMultipleOption("Ultra", "Ultra") >>
ContainerValues ==
    << TrayMultipleOption("MKV", "MKV"), TrayMultipleOption("MP4", "MP4"),
       TrayMultipleOption("WEBM", "WEBM"), TrayMultipleOption("FLV", "FLV") >>

\* The four radio groups of settings_menu, in the order menu() builds them.
GroupOrder == << "framerate", "replay_duration_secs", "quality", "container" >>
Groups == {GroupOrder[k] : k \in 1..Len(GroupOrder)}

Values(g) ==
    CASE g = "framerate" -> FramerateValues
      [] g = "replay_duration_secs" -> DurationValues
      [] g = "quality" -> QualityValues
      [] g = "container" -> ContainerValues

\* (@custombool): true unless the invocation carries `nocustom`.
show_custom(g) == g \in {"framerate", "replay_duration_secs"}

\* -------------------------------------------------------- option renderer
\* Iterator::position: the 0-based index of the first element whose value
\* equals cur, scanning from the front; -1 stands for None.
RECURSIVE PositionFrom(_, _, _)
PositionFrom(values, cur, i) ==
    IF i > Len(values) THEN -1
    ELSE IF values[i].value = cur THEN i - 1
    ELSE PositionFrom(values, cur, i + 1)

\* A renderer that falls back to the first entry when nothing matches.
initial_state_first(values, cur) ==
    LET p == PositionFrom(values, cur, 1) IN IF p = -1 THEN 0 ELSE p

\* initial_state: position(..).unwrap_or(values.len()).
initial_state(values, cur) ==
    LET p == PositionFrom(values, cur, 1) IN IF p = -1 THEN Len(values) ELSE p

\* RadioGroup.options: the labels in order, plus "Custom..." when show_custom.
RadioOptions(values, custom) ==
    [k \in 1..Len(values) |-> values[k].label]
        \o (IF custom THEN << "Custom..." >> ELSE << >>)

\* The SubMenu of one group as menu() hands it to the host.
RadioGroup(g, selected) ==
    [selected |-> selected, options |-> RadioOptions(Values(g), show_custom(g))]

\* ------------------------------------------------------------------- state
VARIABLES
    config,    \* the Config behind Arc<RwLock<Config>>, in memory
    disk,      \* << >> before any save; << c >>: the Config the last completed save() wrote
    unsaved,   \* fields assigned since the last completed save()
    lock,      \* the RwLock: [writer, readers]
    chan,      \* ActionEvents queued in the mpsc channel
    rxAlive,   \* the Receiver exists (the main loop has not ended)
    tray,      \* the tray thread: where it is in which callback
    cb,        \* what the current (or last) callback has done so far
    building,  \* initial_state of the groups menu() has built so far
    snap,      \* << c >>: the Config when menu() last got its read guard
    before,    \* << c >>: the Config when the selection callback got its write guard
    menu,      \* << >> or << m >>: the last menu handed to the host
    lastSel,   \* the last listed entry a selection assigned, and whether a menu was built since
    main,      \* the main loop: [pc, path]
    acts       \* callbacks and menu openings started so far

vars == << config, disk, unsaved, lock, chan, rxAlive, tray, cb, building,
           snap, before, menu, lastSel, main, acts >>

NoCb == [sendCalls |-> 0, delivered |-> << >>, saves |-> 0, prompts |-> 0,
         logs |-> 0, writes |-> 0]
NoSel == [group |-> "none", index |-> 0, rebuilt |-> FALSE]
TrayAt(pc, kind, g, sel, ev, outcome) ==
    [pc |-> pc, kind |-> kind, group |-> g, selection |-> sel, event |-> ev,
     outcome |-> outcome, number |-> 0]

\* Configurations the program may start with (read from the user's file):
\* listed and unlisted numbers, any enumeration value.
InitConfigs ==
    [framerate : {60, 45}, replay_duration_secs : {30, 45},
     quality : {"High"}, container : {"MKV", "FLV"}, replay_path : {"/a"}]

\* TrayIcon::new: the sender and the shared Config are stored; nothing runs.
Init ==
    /\ config \in InitConfigs
    /\ disk = << >>
    /\ unsaved = {}
    /\ lock = [writer |-> "none", readers |-> {}]
    /\ chan = << >>
    /\ rxAlive = TRUE
    /\ tray = TrayAt("idle", "none", "none", 0, "none", "none")
    /\ cb = NoCb
    /\ building = << >>
    /\ snap = << >>
    /\ before = << >>
    /\ menu = << >>
    /\ lastSel = NoSel
    /\ main = [pc |-> "recv", path |-> "none"]
    /\ acts = 0

\* --------------------------------------------------------------- the RwLock
\* tokio::sync::RwLock: read() is granted when no writer holds it, write() when
\* nobody holds it.  (Its queue fairness cannot matter here: each of the two
\* threads holds at most one guard and waits for at most one.)
CanRead == lock.writer = "none"
CanWrite == lock.writer = "none" /\ lock.readers = {}

HostIdle == tray.pc = "idle" /\ acts < MaxActivations

\* ------------------------------------------------------- menu tree builder
\* The host asks for the menu: menu() starts and waits for config.read().
MenuStart ==
    /\ HostIdle
    /\ tray' = TrayAt("menu_lock", "menu", "none", 0, "none", "none")
    /\ cb' = NoCb
    /\ acts' = acts + 1
    /\ UNCHANGED << config, disk, unsaved, lock, chan, rxAlive, building, snap,
                    before, menu, lastSel, main >>

\* A menu() that reads the Config without holding a read guard.
MenuAcquireUnguarded ==
    /\ tray.pc = "menu_lock"
    /\ snap' = << config >>
    /\ tray' = [tray EXCEPT !.pc = "menu_build"]
    /\ UNCHANGED << config, disk, unsaved, lock, chan, rxAlive, cb, building,
                    before, menu, lastSel, main, acts >>

\* let config = block_on(async { self.config.read().await });
MenuAcquire ==
    /\ tray.pc = "menu_lock"
    /\ CanRead
    /\ lock' = [lock EXCEPT !.readers = @ \cup {"tray"}]
    /\ snap' = << config >>
    /\ tray' = [tray EXCEPT !.pc = "menu_build"]
    /\ UNCHANGED << config, disk, unsaved, chan, rxAlive, cb, building,
                    before, menu, lastSel, main, acts >>

\* One tray_config_item_radio!: initial_state is computed from the guarded Config.
MenuGroup ==
    /\ tray.pc = "menu_build"
    /\ Len(building) < Len(GroupOrder)
    /\ LET g == GroupOrder[Len(building) + 1] IN
           building' = Append(building, initial_state(Values(g), config[g]))
    /\ UNCHANGED << config, disk, unsaved, lock, chan, rxAlive, tray, cb, snap,
                    before, menu, lastSel, main, acts >>

\* menu() returns the tree; the read guard, a local, is dropped.
MenuReturn ==
    /\ tray.pc = "menu_build"
    /\ Len(building) = Len(GroupOrder)
    /\ menu' = [k \in 1..Len(GroupOrder) |-> RadioGroup(GroupOrder[k], building[k])]
    /\ lock' = [lock EXCEPT !.readers = @ \ {"tray"}]
    /\ building' = << >>
    /\ lastSel' = IF lastSel = NoSel THEN NoSel ELSE [lastSel EXCEPT !.rebuilt = TRUE]
    /\ tray' = [tray EXCEPT !.pc = "idle"]
    /\ UNCHANGED << config, disk, unsaved, chan, rxAlive, cb, snap, before, main, acts >>

\* --------------------------------------------------- selection reconciler
\* The host calls RadioGroup.select with the index the user picked: the
\* callback starts and waits for config.write().  The host offers the rendered
\* entries; one index past the listed values is the "Custom..." entry where it
\* is rendered, and reaches the empty `nocustom` handler where it is not.
SelectStart(g, selection) ==
    /\ HostIdle
    /\ tray' = TrayAt("select_lock", "select", g, selection, "none", "none")
    /\ cb' = NoCb
    /\ acts' = acts + 1
    /\ UNCHANGED << config, disk, unsaved, lock, chan, rxAlive, building, snap,
                    before, menu, lastSel, main >>

\* A listed-entry branch that indexes the values one too far (wrapping).
SelAssignOffByOne ==
    /\ tray.selection < Len(Values(tray.group))
    /\ config' = [config EXCEPT ![tray.group] =
                     Values(tray.group)[((tray.selection + 1) % Len(Values(tray.group))) + 1].value]
    /\ unsaved' = unsaved \cup {tray.group}
    /\ cb' = [cb EXCEPT !.writes = @ + 1]
    /\ lastSel' = [group |-> tray.group, index |-> tray.selection, rebuilt |-> FALSE]
    /\ tray' = [tray EXCEPT !.pc = "save"]

\* A listed-entry branch that returns without calling save().
SelAssignNoSave ==
    /\ tray.selection < Len(Values(tray.group))
    /\ config' = [config EXCEPT ![tray.group] =
                     Values(tray.group)[tray.selection + 1].value]
    /\ unsaved' = unsaved \cup {tray.group}
    /\ cb' = [cb EXCEPT !.writes = @ + 1]
    /\ lastSel' = [group |-> tray.group, index |-> tray.selection, rebuilt |-> FALSE]
    /\ tray' = [tray EXCEPT !.pc = "select_end"]

\* else branch: config.$config_key = values[selection].1; then config.save().await
SelAssign ==
    /\ tray.selection < Len(Values(tray.group))
    /\ config' = [config EXCEPT ![tray.group] =
                     Values(tray.group)[tray.selection + 1].value]
    /\ unsaved' = unsaved \cup {tray.group}
    /\ cb' = [cb EXCEPT !.writes = @ + 1]
    /\ lastSel' = [group |-> tray.group, index |-> tray.selection, rebuilt |-> FALSE]
    /\ tray' = [tray EXCEPT !.pc = "save"]

\* selection >= len, custom allowed: ask_custom_number(..) is shown.
SelAskCustom ==
    /\ tray.selection >= Len(Values(tray.group))
    /\ show_custom(tray.group)
    /\ cb' = [cb EXCEPT !.prompts = @ + 1]
    /\ tray' = [tray EXCEPT !.pc = "prompt"]
    /\ UNCHANGED << config, unsaved, lastSel >>

\* selection >= len, `nocustom`: the handler expands to nothing.
SelNoCustom ==
    /\ tray.selection >= Len(Values(tray.group))
    /\ ~show_custom(tray.group)
    /\ tray' = [tray EXCEPT !.pc = "select_end"]
    /\ UNCHANGED << config, unsaved, cb, lastSel >>

\* A callback whose write guard does not cover the custom-number prompt.
SelAcquireGuardDropped ==
    /\ tray.pc = "select_lock"
    /\ CanWrite
    /\ lock' = IF tray.selection >= Len(Values(tray.group)) /\ show_custom(tray.group)
               THEN lock ELSE [lock EXCEPT !.writer = "tray"]
    /\ before' = << config >>
    /\ (SelAssign \/ SelAskCustom \/ SelNoCustom)
    /\ UNCHANGED << disk, chan, rxAlive, building, snap, menu, main, acts >>

\* let mut config = config.write().await; then the branch on the selection.
SelAcquire ==
    /\ tray.pc = "select_lock"
    /\ CanWrite
    /\ lock' = [lock EXCEPT !.writer = "tray"]
    /\ before' = << config >>
    /\ (SelAssign \/ SelAskCustom \/ SelNoCustom)
    /\ UNCHANGED << disk, chan, rxAlive, building, snap, menu, main, acts >>

\* A custom handler that always writes the framerate field.
PromptConfirmFramerate(number) ==
    /\ tray.pc = "prompt"
    /\ config' = [config EXCEPT !.framerate = number]
    /\ unsaved' = unsaved \cup {"framerate"}
    /\ cb' = [cb EXCEPT !.writes = @ + 1]
    /\ lastSel' = NoSel
    /\ tray' = [tray EXCEPT !.pc = "save", !.outcome = "confirmed", !.number = number]
    /\ UNCHANGED << disk, lock, chan, rxAlive, building, snap, before, menu, main, acts >>

\* Ok(Some(number)): config.$config_key = number; then config.save().await
PromptConfirm(number) ==
    /\ tray.pc = "prompt"
    /\ config' = [config EXCEPT ![tray.group] = number]
    /\ unsaved' = unsaved \cup {tray.group}
    /\ cb' = [cb EXCEPT !.writes = @ + 1]
    /\ lastSel' = NoSel
    /\ tray' = [tray EXCEPT !.pc = "save", !.outcome = "confirmed", !.number = number]
    /\ UNCHANGED << disk, lock, chan, rxAlive, building, snap, before, menu, main, acts >>

\* Ok(None): the user cancelled; nothing is done.
PromptCancel ==
    /\ tray.pc = "prompt"
    /\ tray' = [tray EXCEPT !.pc = "select_end", !.outcome = "cancelled"]
    /\ UNCHANGED << config, disk, unsaved, lock, chan, rxAlive, cb, building, snap,
                    before, menu, lastSel, main, acts >>

\* A custom handler that unwraps the prompt's result.
PromptErrorUnwrap ==
    /\ tray.pc = "prompt"
    /\ tray' = [tray EXCEPT !.pc = "panicked", !.outcome = "error"]
    /\ UNCHANGED << config, disk, unsaved, lock, chan, rxAlive, cb, building, snap,
                    before, menu, lastSel, main, acts >>

\* Err(err): error!(..) logs it; nothing else is done.
PromptError ==
    /\ tray.pc = "prompt"
    /\ cb' = [cb EXCEPT !.logs = @ + 1]
    /\ tray' = [tray EXCEPT !.pc = "select_end", !.outcome = "error"]
    /\ UNCHANGED << config, disk, unsaved, lock, chan, rxAlive, building, snap,
                    before, menu, lastSel, main, acts >>

\* Config::save: the whole Config as it is in memory becomes the stored one.
Persisted(c) == << c >>

\* config.save().await completes (the write guard is still held).
SaveDone ==
    /\ tray.pc = "save"
    /\ disk' = Persisted(config)
    /\ unsaved' = {}
    /\ cb' = [cb EXCEPT !.saves = @ + 1]
    /\ tray' = [tray EXCEPT !.pc = "select_end"]
    /\ UNCHANGED << config, lock, chan, rxAlive, building, snap, before, menu,
                    lastSel, main, acts >>

\* The async block ends: the write guard is dropped and the callback returns.
SelRelease ==
    /\ tray.pc = "select_end"
    /\ lock' = [lock EXCEPT !.writer = "none"]
    /\ before' = << >>
    /\ tray' = [tray EXCEPT !.pc = "idle"]
    /\ UNCHANGED << config, disk, unsaved, chan, rxAlive, cb, building, snap, menu,
                    lastSel, main, acts >>

\* ------------------------------------------------------- action dispatcher
\* An action callback that takes the Config's write guard before it sends.
ActivateActionLocking(event) ==
    /\ HostIdle
    /\ CanWrite
    /\ lock' = [lock EXCEPT !.writer = "tray"]
    /\ tray' = TrayAt("send", "action", "none", 0, event, "none")
    /\ cb' = [NoCb EXCEPT !.sendCalls = 1]
    /\ acts' = acts + 1
    /\ UNCHANGED << config, disk, unsaved, chan, rxAlive, building, snap,
                    before, menu, lastSel, main >>

\* "Save replay", "Path" or "Quit" is activated: the callback calls
\* send(event) on its Sender and awaits it.
ActivateAction(event) ==
    /\ HostIdle
    /\ tray' = TrayAt("send", "action", "none", 0, event, "none")
    /\ cb' = [NoCb EXCEPT !.sendCalls = 1]
    /\ acts' = acts + 1
    /\ UNCHANGED << config, disk, unsaved, lock, chan, rxAlive, building, snap,
                    before, menu, lastSel, main >>

\* Closures that all send the same event.
SendOkQuit ==
    /\ tray.pc = "send"
    /\ rxAlive
    /\ Len(chan) < ChanCap
    /\ chan' = Append(chan, "Quit")
    /\ cb' = [cb EXCEPT !.delivered = Append(@, "Quit")]
    /\ tray' = [tray EXCEPT !.pc = "idle"]
    /\ UNCHANGED << config, disk, unsaved, lock, rxAlive, building, snap, before,
                    menu, lastSel, main, acts >>

\* send(..).await returns Ok once the bounded channel has room.
SendOk ==
    /\ tray.pc = "send"
    /\ rxAlive
    /\ Len(chan) < ChanCap
    /\ chan' = Append(chan, tray.event)
    /\ cb' = [cb EXCEPT !.delivered = Append(@, tray.event)]
    /\ tray' = [tray EXCEPT !.pc = "idle"]
    /\ UNCHANGED << config, disk, unsaved, lock, rxAlive, building, snap, before,
                    menu, lastSel, main, acts >>

\* A send whose error is dropped instead of unwrapped.
SendErrIgnored ==
    /\ tray.pc = "send"
    /\ ~rxAlive
    /\ tray' = [tray EXCEPT !.pc = "idle", !.outcome = "send_err"]
    /\ UNCHANGED << config, disk, unsaved, lock, chan, rxAlive, cb, building, snap,
                    before, menu, lastSel, main, acts >>

\* send(..).await returns Err when the Receiver is gone; unwrap() panics.
SendErr ==
    /\ tray.pc = "send"
    /\ ~rxAlive
    /\ tray' = [tray EXCEPT !.pc = "panicked", !.outcome = "send_err"]
    /\ UNCHANGED << config, disk, unsaved, lock, chan, rxAlive, cb, building, snap,
                    before, menu, lastSel, main, acts >>

\* "About" is activated: gpu-screen-recorder --version is run.
ActivateAbout ==
    /\ HostIdle
    /\ tray' = TrayAt("about_cmd", "about", "none", 0, "none", "none")
    /\ cb' = NoCb
    /\ acts' = acts + 1
    /\ UNCHANGED << config, disk, unsaved, lock, chan, rxAlive, building, snap,
                    before, menu, lastSel, main >>

\* The command ran and its output decoded: the MessageBox is shown.
AboutShow ==
    /\ tray.pc = "about_cmd"
    /\ cb' = [cb EXCEPT !.prompts = @ + 1]
    /\ tray' = [tray EXCEPT !.pc = "about_box"]
    /\ UNCHANGED << config, disk, unsaved, lock, chan, rxAlive, building, snap,
                    before, menu, lastSel, main, acts >>

\* output().unwrap() or String::from_utf8(..).unwrap() panics.
AboutCommandFail ==
    /\ tray.pc = "about_cmd"
    /\ tray' = [tray EXCEPT !.pc = "panicked", !.outcome = "about_err"]
    /\ UNCHANGED << config, disk, unsaved, lock, chan, rxAlive, cb, building, snap,
                    before, menu, lastSel, main, acts >>

\* show() returns Ok: the callback returns.
AboutClose ==
    /\ tray.pc = "about_box"
    /\ tray' = [tray EXCEPT !.pc = "idle"]
    /\ UNCHANGED << config, disk, unsaved, lock, chan, rxAlive, cb, building, snap,
                    before, menu, lastSel, main, acts >>

\* show().unwrap() panics.
AboutShowFail ==
    /\ tray.pc = "about_box"
    /\ tray' = [tray EXCEPT !.pc = "panicked", !.outcome = "about_err"]
    /\ UNCHANGED << config, disk, unsaved, lock, chan, rxAlive, cb, building, snap,
                    before, menu, lastSel, main, acts >>

\* ---------------------------------------------------------------- main loop
\* The consumer of the channel.  It receives one event at a time; it reads the
\* Config to save a replay, runs the file picker and writes and saves the new
\* path for ChangeReplayPath, and ends (dropping the Receiver) on Quit.
MainRecvSaveReplay ==
    /\ main.pc = "recv"
    /\ chan # << >>
    /\ Head(chan) = "SaveReplay"
    /\ chan' = Tail(chan)
    /\ main' = [main EXCEPT !.pc = "replay_lock"]
    /\ UNCHANGED << config, disk, unsaved, lock, rxAlive, tray, cb, building, snap,
                    before, menu, lastSel, acts >>

MainReplayAcquire ==
    /\ main.pc = "replay_lock"
    /\ CanRead
    /\ lock' = [lock EXCEPT !.readers = @ \cup {"main"}]
    /\ main' = [main EXCEPT !.pc = "replay_read"]
    /\ UNCHANGED << config, disk, unsaved, chan, rxAlive, tray, cb, building, snap,
                    before, menu, lastSel, acts >>

MainReplayRelease ==
    /\ main.pc = "replay_read"
    /\ lock' = [lock EXCEPT !.readers = @ \ {"main"}]
    /\ main' = [main EXCEPT !.pc = "recv"]
    /\ UNCHANGED << config, disk, unsaved, chan, rxAlive, tray, cb, building, snap,
                    before, menu, lastSel, acts >>

MainRecvChangePath ==
    /\ main.pc = "recv"
    /\ chan # << >>
    /\ Head(chan) = "ChangeReplayPath"
    /\ chan' = Tail(chan)
    /\ main' = [main EXCEPT !.pc = "picker"]
    /\ UNCHANGED << config, disk, unsaved, lock, rxAlive, tray, cb, building, snap,
                    before, menu, lastSel, acts >>

MainPickerCancel ==
    /\ main.pc = "picker"
    /\ main' = [main EXCEPT !.pc = "recv"]
    /\ UNCHANGED << config, disk, unsaved, lock, chan, rxAlive, tray, cb, building,
                    snap, before, menu, lastSel, acts >>

MainPickerChoose(path) ==
    /\ main.pc = "picker"
    /\ main' = [pc |-> "path_lock", path |-> path]
    /\ UNCHANGED << config, disk, unsaved, lock, chan, rxAlive, tray, cb, building,
                    snap, before, menu, lastSel, acts >>

MainPathAcquire ==
    /\ main.pc = "path_lock"
    /\ CanWrite
    /\ lock' = [lock EXCEPT !.writer = "main"]
    /\ config' = [config EXCEPT !.replay_path = main.path]
    /\ lastSel' = NoSel
    /\ main' = [main EXCEPT !.pc = "path_save"]
    /\ UNCHANGED << disk, unsaved, chan, rxAlive, tray, cb, building, snap, before,
                    menu, acts >>

MainPathSave ==
    /\ main.pc = "path_save"
    /\ disk' = Persisted(config)
    /\ unsaved' = {}
    /\ main' = [main EXCEPT !.pc = "path_end"]
    /\ UNCHANGED << config, lock, chan, rxAlive, tray, cb, building, snap, before,
                    menu, lastSel, acts >>

MainPathRelease ==
    /\ main.pc = "path_end"
    /\ lock' = [lock EXCEPT !.writer = "none"]
    /\ main' = [pc |-> "recv", path |-> "none"]
    /\ UNCHANGED << config, disk, unsaved, chan, rxAlive, tray, cb, building, snap,
                    before, menu, lastSel, acts >>

MainRecvQuit ==
    /\ main.pc = "recv"
    /\ chan # << >>
    /\ Head(chan) = "Quit"
    /\ chan' = << >>
    /\ rxAlive' = FALSE
    /\ main' = [main EXCEPT !.pc = "stopped"]
    /\ UNCHANGED << config, disk, unsaved, lock, tray, cb, building, snap, before,
                    menu, lastSel, acts >>

\* ------------------------------------------------------------ specification
\* What the host and the user decide: opening the menu, activating an entry,
\* answering a prompt.
TrayUser ==
    \/ MenuStart
    \/ \E g \in Groups : \E selection \in 0..Len(Values(g)) : SelectStart(g, selection)
    \/ \E number \in CustomNumbers : PromptConfirm(number)
    \/ PromptCancel
    \/ PromptError
    \/ \E event \in ActionEvent : ActivateAction(event)
    \/ ActivateAbout
    \/ AboutShow
    \/ AboutCommandFail
    \/ AboutClose
    \/ AboutShowFail

\* What the tray thread does by itself once a callback is running.
TrayRun ==
    \/ MenuAcquire
    \/ MenuGroup
    \/ MenuReturn
    \/ SelAcquire
    \/ SaveDone
    \/ SelRelease
    \/ SendOk
    \/ SendErr

\* What the user decides in the main loop: how the file picker is answered.
MainUser ==
    \/ MainPickerCancel
    \/ \E path \in Paths : MainPickerChoose(path)

\* What the main loop does by itself.
MainRun ==
    \/ MainRecvSaveReplay
    \/ MainReplayAcquire
    \/ MainReplayRelease
    \/ MainRecvChangePath
    \/ MainPathAcquire
    \/ MainPathSave
    \/ MainPathRelease
    \/ MainRecvQuit

MainNext == MainUser \/ MainRun

Next == TrayUser \/ TrayRun \/ MainNext

Spec == Init /\ [][Next]_vars

\* Both threads are scheduled: a step of either thread that needs no user is
\* taken if it stays possible.  Nothing makes the user answer a prompt, in the
\* tray (custom number, message box) or in the main loop (file picker).
FairSpec == Init /\ [][Next]_vars /\ WF_vars(TrayRun) /\ WF_vars(MainRun)

\* ------------------------------------------------------------------ claims
\* The last returned menu is the one built from snap (no newer build has
\* taken its read guard yet).
MenuCurrent == menu # << >> /\ snap # << >> /\ tray.pc # "menu_build"

\* Entry k (0-based) of the values is the first one equal to cur.
FirstMatch(values, cur, k) ==
    /\ k < Len(values)
    /\ values[k + 1].value = cur
    /\ \A j \in 0..(k - 1) : values[j + 1].value # cur

NoMatch(values, cur) == \A j \in 1..Len(values) : values[j].value # cur

\* C1: in every menu handed to the host, each group's selected index is the
\* position of the first entry equal to the field's value at build time, and is
\* the number of entries when none is equal; the rendered options are the
\* entries' labels, followed by "Custom..." at exactly that no-match index when
\* custom is allowed, and are only the entries when it is not, so that the
\* no-match index is then outside the options.
C1_SelectedIndex ==
    MenuCurrent =>
        \A k \in 1..Len(GroupOrder) :
            LET g == GroupOrder[k]
                values == Values(g)
                cur == snap[1][g]
                selected == menu[k].selected
                options == menu[k].options
            IN  /\ \/ FirstMatch(values, cur, selected)
                   \/ NoMatch(values, cur) /\ selected = Len(values)
                /\ \A j \in 1..Len(values) : options[j] = values[j].label
                /\ show_custom(g) =>
                       /\ Len(options) = Len(values) + 1
                       /\ options[Len(values) + 1] = "Custom..."
                /\ ~show_custom(g) =>
                       /\ Len(options) = Len(values)
                       /\ (Len(values) + 1) \notin DOMAIN options

\* A menu whose framerate group sits on the sentinel (45 is not listed) while
\* the duration, quality and container groups sit on listed entries.
C1_Witness ==
    /\ MenuCurrent
    /\ snap[1].framerate = 45
    /\ menu[1].selected = 2
    /\ menu[2].selected = 0
    /\ menu[3].selected = 1
    /\ menu[4].selected = 3

SentinelSelection ==
    /\ tray.kind = "select"
    /\ show_custom(tray.group)
    /\ tray.selection >= Len(Values(tray.group))

\* C2: a selection of the sentinel of a custom group that the user cancels has
\* written no field and called save() zero times, and the Config is the one it
\* found; one the user confirms with n has made exactly that group's field n,
\* left every other field as it found it, and called save() exactly once.
C2_SentinelFrame ==
    SentinelSelection =>
        /\ tray.outcome = "cancelled" =>
               /\ cb.writes = 0 /\ cb.saves = 0
               /\ tray.pc = "select_end" => config = before[1]
        /\ (tray.outcome = "confirmed" /\ tray.pc \in {"select_end", "idle"}) =>
               /\ cb.writes = 1 /\ cb.saves = 1
               /\ tray.pc = "select_end" =>
                      /\ config = [before[1] EXCEPT ![tray.group] = tray.number]
                      /\ disk = << config >>

\* The duration sentinel confirmed with 45: the callback is about to return.
C2_Witness ==
    /\ SentinelSelection
    /\ tray.group = "replay_duration_secs"
    /\ tray.outcome = "confirmed"
    /\ tray.number = 45
    /\ tray.pc = "select_end"
    /\ before[1].replay_duration_secs # 45

\* C3: whenever the tray does not hold the write lock, no field it assigned is
\* unsaved: every assignment of a selection callback has been followed by a
\* completed save() (as many saves as assignments), and when nobody writes,
\* the stored Config agrees with memory on every field the tray sets.
C3_SavedBeforeRelease ==
    /\ lock.writer # "tray" => unsaved = {}
    /\ (tray.kind = "select" /\ tray.pc \in {"select_end", "idle"}) =>
           /\ cb.saves = cb.writes
           /\ cb.writes > 0 => disk # << >>
    /\ (lock.writer = "none" /\ disk # << >>) =>
           \A g \in Groups : disk[1][g] = config[g]

\* A listed entry was selected, saved, and the lock is free again.
C3_Witness ==
    /\ tray.kind = "select"
    /\ tray.pc = "idle"
    /\ tray.selection < Len(Values(tray.group))
    /\ cb.writes = 1
    /\ lock.writer = "none"
    /\ disk = << config >>

GroupIndex(g) == CHOOSE k \in 1..Len(GroupOrder) : GroupOrder[k] = g

\* C4: when a menu has been built after a selection assigned listed entry i of
\* a group, and the Config was not written in between, that group's selected
\* index in the menu is i.
C4_RoundTrip ==
    (lastSel # NoSel /\ lastSel.rebuilt) =>
        /\ menu # << >>
        /\ menu[GroupIndex(lastSel.group)].selected = lastSel.index

\* "3min" (index 3) was selected and the menu built again.
C4_Witness ==
    /\ lastSel.rebuilt
    /\ lastSel.group = "replay_duration_secs"
    /\ lastSel.index = 3
    /\ menu # << >>
    /\ menu[2].selected = 3

TrayHoldsLock == lock.writer = "tray" \/ "tray" \in lock.readers

\* A step taken by the tray thread inside an action callback.
ActionCallbackStep == tray.kind = "action" /\ tray'.kind = "action" /\ tray' # tray

C5_ActionState ==
    tray.kind = "action" =>
        /\ tray.pc \in {"send", "idle", "panicked"}
        /\ tray.event \in ActionEvent
        /\ cb.sendCalls = 1
        /\ cb.writes = 0 /\ cb.saves = 0 /\ cb.prompts = 0
        /\ ~TrayHoldsLock
        /\ tray.pc = "idle" => cb.delivered = << tray.event >>
        /\ tray.pc # "idle" => cb.delivered = << >>

C5_ActionStep ==
    ActionCallbackStep =>
        /\ config' = config /\ disk' = disk /\ lock' = lock /\ main' = main
        /\ \/ chan' = chan
           \/ chan' = Append(chan, tray.event) /\ tray'.pc = "idle"

\* C5: an activation of "Save replay", "Path" or "Quit" calls send once, and
\* when it returns it has put exactly one event, of its own kind, on the
\* channel; none of its steps changes the Config, the stored Config or the
\* lock, calls save() or opens a prompt (the picker runs only in the main loop).
C5_ActionSendsOneEvent == []C5_ActionState /\ [][C5_ActionStep]_vars

\* "Path" has returned after putting ChangeReplayPath on the channel.
C5_Witness ==
    /\ tray.kind = "action"
    /\ tray.pc = "idle"
    /\ tray.event = "ChangeReplayPath"
    /\ cb.delivered = << "ChangeReplayPath" >>
    /\ chan = << "ChangeReplayPath" >>

\* C6: a sentinel selection whose prompt returned an error logs it once and
\* goes on to return normally: it never panics, asks once only, assigns and
\* saves nothing, leaves the Config as it found it, and once it has returned
\* the tray no longer holds the write lock.
C6_PromptErrorAbsorbed ==
    tray.outcome = "error" =>
        /\ tray.pc \in {"select_end", "idle"}
        /\ cb.logs = 1 /\ cb.prompts = 1
        /\ cb.writes = 0 /\ cb.saves = 0
        /\ tray.pc = "select_end" => config = before[1] /\ lock.writer = "tray"
        /\ tray.pc = "idle" => lock.writer # "tray"

\* After the failed prompt's callback returned, the main loop took the write lock.
C6_Witness ==
    /\ tray.outcome = "error"
    /\ tray.pc = "idle"
    /\ cb.logs = 1
    /\ lock.writer = "main"

C7_SendErrState ==
    /\ tray.outcome = "send_err" =>
           /\ tray.kind = "action"
           /\ tray.pc = "panicked"
           /\ ~rxAlive
           /\ cb.delivered = << >>
           /\ chan = << >>
           /\ cb.writes = 0 /\ cb.saves = 0
           /\ ~TrayHoldsLock
    /\ (tray.kind = "action" /\ tray.pc = "idle") => cb.delivered # << >>

C7_SendErrStep ==
    (tray.pc = "send" /\ ~rxAlive /\ tray' # tray) =>
        /\ tray'.pc = "panicked"
        /\ config' = config /\ disk' = disk /\ lock' = lock /\ chan' = chan

\* C7: an action callback whose send finds the Receiver gone does not return:
\* its only step is the panic; no event is on the channel or counted as
\* delivered, and the Config, the stored Config and the lock are as they were.
C7_SendFailureIsAbrupt == []C7_SendErrState /\ [][C7_SendErrStep]_vars

\* "Save replay" was activated after the main loop had ended.
C7_Witness ==
    /\ tray.kind = "action"
    /\ tray.event = "SaveReplay"
    /\ tray.pc = "panicked"
    /\ tray.outcome = "send_err"
    /\ main.pc = "stopped"

\* C8: while menu() builds, it holds the read guard it took once, nobody holds
\* the write lock, the Config is still the one it found when it took the guard
\* (no assignment, saved or not, has come in between), and every index built so
\* far is the one that Config gives; the returned menu carries the indices of
\* that one Config, and the tray holds no read access once menu() has returned.
C8_ConsistentSnapshot ==
    /\ tray.pc = "menu_build" =>
           /\ "tray" \in lock.readers
           /\ lock.writer = "none"
           /\ unsaved = {}
           /\ snap = << config >>
           /\ \A k \in 1..Len(building) :
                  building[k] = initial_state(Values(GroupOrder[k]), snap[1][GroupOrder[k]])
    /\ tray.pc \in {"idle", "menu_lock"} => "tray" \notin lock.readers
    /\ MenuCurrent =>
           \A k \in 1..Len(GroupOrder) :
               menu[k].selected = initial_state(Values(GroupOrder[k]), snap[1][GroupOrder[k]])

\* Half of the groups are built while the main loop waits to write the new path.
C8_Witness ==
    /\ tray.pc = "menu_build"
    /\ Len(building) = 2
    /\ main.pc = "path_lock"
    /\ main.path # config.replay_path

\* The tray thread cannot go on until the main loop does something.
TrayWaitsForMain ==
    \/ tray.pc = "send" /\ rxAlive /\ Len(chan) >= ChanCap
    \/ tray.pc = "menu_lock" /\ lock.writer = "main"
    \/ tray.pc = "select_lock" /\ (lock.writer = "main" \/ "main" \in lock.readers)

\* The main loop cannot go on until the tray thread does something.
MainWaitsForTray ==
    \/ main.pc = "recv" /\ chan = << >>
    \/ main.pc = "replay_lock" /\ lock.writer = "tray"
    \/ main.pc = "path_lock" /\ TrayHoldsLock

C9_NoHoldAndWait ==
    /\ tray.pc = "send" => ~TrayHoldsLock
    /\ TrayHoldsLock => (tray.kind \in {"menu", "select"} /\ cb.sendCalls = 0)
    /\ ~(TrayWaitsForMain /\ MainWaitsForTray)

\* C9 as stated: a callback that is sending holds no lock on the Config and a
\* callback that holds one never sends, so the tray thread and the main loop
\* never wait for each other, full channel or not; and with both threads
\* scheduled, a send that has started always ends.
C9_Original == []C9_NoHoldAndWait /\ ((tray.pc = "send") ~> (tray.pc # "send"))

\* C9, amended: a callback that is sending holds no lock on the Config and a
\* callback that holds one never sends, so the tray thread and the main loop
\* never wait for each other, full channel or not; and with both threads
\* scheduled, a send that has started ends (delivered, or failed on a closed
\* channel) unless the main loop is held in the file picker, which only the
\* user ends.
C9_NoDeadlock ==
    /\ []C9_NoHoldAndWait
    /\ ((tray.pc = "send") ~> (tray.pc # "send" \/ main.pc = "picker"))

\* A send blocked on the full channel while the main loop, busy with an earlier
\* event, is about to take the lock.
C9_Witness ==
    /\ tray.pc = "send"
    /\ rxAlive
    /\ Len(chan) = ChanCap
    /\ main.pc \in {"replay_lock", "path_lock"}

C10_PromptState ==
    tray.pc = "prompt" =>
        /\ lock.writer = "tray"
        /\ lock.readers = {}
        /\ main.pc \notin {"replay_read", "path_save", "path_end"}

C10_PromptStep ==
    /\ (tray.pc = "prompt" /\ tray'.pc = "prompt") =>
           /\ config' = config /\ disk' = disk /\ lock' = lock
           /\ main.pc \in {"replay_lock", "path_lock"} => main' = main
    /\ (lock.writer = "tray" /\ lock'.writer # "tray") =>
           /\ tray.pc = "select_end"
           /\ unsaved = {}

\* C10: while the custom-number prompt is open the tray holds the write lock,
\* taken before the prompt was shown, and nobody else holds the lock; as long
\* as the prompt stays open the Config does not change and a main loop waiting
\* for the lock stays waiting; the lock is given up only at the end of the
\* callback, after the prompt has returned and any assignment has been saved.
C10_PromptUnderWriteLock == []C10_PromptState /\ [][C10_PromptStep]_vars

\* The prompt is open while the main loop waits to write the path it was given.
C10_Witness ==
    /\ tray.pc = "prompt"
    /\ lock.writer = "tray"
    /\ main.pc = "path_lock"

====
